---------------------------- MODULE Spec2Model ----------------------------
(***************************************************************************)
(* py-time-machine: rsync snapshots with a "latest" pointer, a per-        *)
(* destination lock file and tiered retention (src/py-time-machine.py).    *)
(*                                                                         *)
(* Three specifications share the variables:                               *)
(*   Spec          runs started one after another against one destination *)
(*                 (the cron deployment the lease is meant to enforce);    *)
(*   LockSpec      runs started concurrently: the lock-file protocol of    *)
(*                 _flock_exclusive / _flock_release, step by step;        *)
(*   RetentionSpec _smart_remove as a function of the snapshot list, the   *)
(*                 current time and the retention configuration.           *)
(*                                                                         *)
(* Time is counted in ticks, TicksPerDay of them to a UTC day, from        *)
(* 1970-01-01 00:00.  A snapshot is identified by its timestamp: the       *)
(* directory name is strftime of it and strptime of the name gives it      *)
(* back, so (dt, path) pairs of the source are represented by dt.          *)
(***************************************************************************)
EXTENDS Integers, FiniteSets, Sequences, TLC

(* ------------------------------ bounds -------------------------------- *)
\* clock resolution: readings of the clock per UTC day
TicksPerDay == 2
\* the modelled time window is T0 .. T0 + MaxTime (in ticks)
MaxTime == 4
\* snapshot directories present on the destination when the model starts
MaxInitSnapshots == 2
\* snapshots in a list handed to _smart_remove in RetentionSpec
MaxSnapshots == 3
\* processes that may run concurrently in LockSpec
NumRuns == 3

(* ----------------------- calendar (datetime) -------------------------- *)
\* datetime.datetime(y, m, d).toordinal(), shifted to days since 1970-01-01
DaysFromCivil(y, m, d) ==
    LET yy  == IF m <= 2 THEN y - 1 ELSE y
        era == yy \div 400
        yoe == yy - era * 400
        mp  == IF m > 2 THEN m - 3 ELSE m + 9
        doy == (153 * mp + 2) \div 5 + d - 1
        doe == yoe * 365 + yoe \div 4 - yoe \div 100 + doy
    IN  era * 146097 + doe - 719468

\* the (year, month, day) of a day number
CivilFromDays(z0) ==
    LET z   == z0 + 719468
        era == z \div 146097
        doe == z - era * 146097
        yoe == (doe - doe \div 1460 + doe \div 36524 - doe \div 146096) \div 365
        doy == doe - (365 * yoe + yoe \div 4 - yoe \div 100)
        mp  == (5 * doy + 2) \div 153
        d   == doy - (153 * mp + 2) \div 5 + 1
        m   == IF mp < 10 THEN mp + 3 ELSE mp - 9
        y   == yoe + era * 400 + (IF m <= 2 THEN 1 ELSE 0)
    IN  [year |-> y, month |-> m, day |-> d]

\* datetime.timedelta(days=1)
ONEDAY == TicksPerDay

DayOf(t)   == t \div TicksPerDay
YearOf(t)  == CivilFromDays(DayOf(t)).year
MonthOf(t) == CivilFromDays(DayOf(t)).month

\* datetime.datetime(y, m, d, 0, 0, 0)
DateTime(y, m, d) == DaysFromCivil(y, m, d) * TicksPerDay

\* datetime.weekday(): Monday is 0; 1970-01-01 was a Thursday
Weekday(t) == (DayOf(t) + 3) % 7

\* the first tick of the window: Saturday 2023-12-30 00:00 UTC, so that the
\* window crosses a week, a month and a year boundary
T0 == DateTime(2023, 12, 30)
Times == T0 .. (T0 + MaxTime)

SetMax(S) == CHOOSE x \in S : \A y \in S : y <= x
SetMin(S) == CHOOSE x \in S : \A y \in S : x <= y

(* ------------------------ retention helpers --------------------------- *)
\* mutant: the lower end of the window is excluded
_keep_all_Exclusive(snapshots, min_date, max_date) ==
    {dt \in snapshots : min_date < dt /\ dt <= max_date}

\* all snapshots with min_date <= dt <= max_date
_keep_all(snapshots, min_date, max_date) ==
    {dt \in snapshots : min_date <= dt /\ dt <= max_date}

\* only the latest snapshot with min_date <= dt < max_date
_keep_last(snapshots, min_date, max_date) ==
    LET res == {dt \in snapshots : min_date <= dt /\ dt < max_date}
    IN  IF res # {} THEN {SetMax(res)} ELSE {}

\* the year and month inc_month computes: m = dt.month + 1, rolling the year
inc_month_ym(ym) ==
    IF ym[2] + 1 > 12 THEN <<ym[1] + 1, 1>> ELSE <<ym[1], ym[2] + 1>>

\* mutant: December of the same year follows January backwards
dec_month_ym_SameYear(ym) ==
    IF ym[2] - 1 < 1 THEN <<ym[1], 12>> ELSE <<ym[1], ym[2] - 1>>

\* the year and month dec_month computes: m = dt.month - 1, rolling the year
dec_month_ym(ym) ==
    IF ym[2] - 1 < 1 THEN <<ym[1] - 1, 12>> ELSE <<ym[1], ym[2] - 1>>

\* first day of the month after dt's: datetime(y, m, 1)
inc_month(dt) ==
    LET ym == inc_month_ym(<<YearOf(dt), MonthOf(dt)>>)
    IN  DateTime(ym[1], ym[2], 1)

\* first day of the month before dt's: datetime(y, m, 1)
dec_month(dt) ==
    LET ym == dec_month_ym(<<YearOf(dt), MonthOf(dt)>>)
    IN  DateTime(ym[1], ym[2], 1)

\* d1 of iteration i of the month loop: datetime(now.year, now.month, 1) with
\* dec_month applied i times (d1 is always a first of a month, so its year
\* and month are carried instead of being read back from the date)
MonthStart(now, i) ==
    LET d1[k \in 0 .. i] ==
            IF k = 0 THEN <<YearOf(now), MonthOf(now)>>
                     ELSE dec_month_ym(d1[k - 1])
        ym == d1[i]
    IN  DateTime(ym[1], ym[2], 1)

\* d2 of iteration i of the month loop: inc_month(d1) at first, then the
\* previous iteration's d1
MonthEnd(now, i) ==
    IF i = 0 THEN inc_month(MonthStart(now, 0)) ELSE MonthStart(now, i - 1)

\* today = now at 00:00:00
Today(now) == DayOf(now) * TicksPerDay

\* the value of `today` after the keep_one_per_day loop, which decrements it
TodayAfterDays(now, keep_one_per_day) ==
    IF keep_one_per_day > 0 THEN Today(now) - keep_one_per_day * ONEDAY
                            ELSE Today(now)

\* mutant: the list starts empty instead of holding snapshots[-1]
KeepNewest_Omitted(snapshots) == {}

\* keep the last snapshot: keep_snapshots = [snapshots[-1][1]]
KeepNewest(snapshots) == {SetMax(snapshots)}

KeepAllRule(snapshots, now, cfg) ==
    IF cfg.keep_all > 0
    THEN _keep_all(snapshots, now - cfg.keep_all * ONEDAY, now)
    ELSE {}

KeepDayRule(snapshots, now, cfg) ==
    UNION { _keep_last(snapshots, Today(now) - k * ONEDAY,
                       Today(now) - k * ONEDAY + ONEDAY)
            : k \in 0 .. (cfg.keep_one_per_day - 1) }

\* d = today - timedelta(days=today.weekday() + 1), today as the day loop left it
WeekStart(now, cfg) ==
    LET today == TodayAfterDays(now, cfg.keep_one_per_day)
    IN  today - (Weekday(today) + 1) * ONEDAY

KeepWeekRule(snapshots, now, cfg) ==
    UNION { _keep_last(snapshots, WeekStart(now, cfg) - 7 * w * ONEDAY,
                       WeekStart(now, cfg) - 7 * w * ONEDAY + 8 * ONEDAY)
            : w \in 0 .. (cfg.keep_one_per_week - 1) }

KeepMonthRule(snapshots, now, cfg) ==
    UNION { _keep_last(snapshots, MonthStart(now, i), MonthEnd(now, i))
            : i \in 0 .. (cfg.keep_one_per_month - 1) }

\* mutant: no yearly rule
KeepYearRule_Omitted(snapshots, now) == {}

\* keep one per year for all years, first_year .. now.year
KeepYearRule(snapshots, now) ==
    UNION { _keep_last(snapshots, DateTime(i, 1, 1), DateTime(i + 1, 1, 1))
            : i \in YearOf(SetMin(snapshots)) .. YearOf(now) }

\* keep_snapshots of _smart_remove, for a list of at least two snapshots
KeepSet(snapshots, now, cfg) ==
    KeepNewest(snapshots)
        \cup KeepAllRule(snapshots, now, cfg)
        \cup KeepDayRule(snapshots, now, cfg)
        \cup KeepWeekRule(snapshots, now, cfg)
        \cup KeepMonthRule(snapshots, now, cfg)
        \cup KeepYearRule(snapshots, now)

\* mutant: thinning by count, the oldest snapshot of a list of two or more
\* goes every time
DelSnapshots_DropOldest(snapshots, now, cfg) ==
    IF Cardinality(snapshots) <= 1 THEN {} ELSE {SetMin(snapshots)}

\* mutant: no early return for a short list, and the optional rules alone
\* say what is kept
DelSnapshots_Unguarded(snapshots, now, cfg) ==
    {s \in snapshots : s \notin KeepAllRule(snapshots, now, cfg)
                                   \cup KeepDayRule(snapshots, now, cfg)
                                   \cup KeepWeekRule(snapshots, now, cfg)
                                   \cup KeepMonthRule(snapshots, now, cfg)}

\* del_snapshots of _smart_remove
DelSnapshots(snapshots, now, cfg) ==
    IF Cardinality(snapshots) <= 1
    THEN {}
    ELSE {s \in snapshots : s \notin KeepSet(snapshots, now, cfg)}


(* --------------------------- configuration ---------------------------- *)
\* program constants and the defaults of __init__
ONEM == 1048576
min_space == 1024
min_inodes == 100000

\* self.smart_remove as __init__ sets it
DefaultSmartRemove ==
    [keep_all |-> 1, keep_one_per_day |-> 7,
     keep_one_per_week |-> 4, keep_one_per_month |-> 12]

\* every rule but "newest" and "per year" switched off (any value <= 0)
NoSmartRemove ==
    [keep_all |-> 0, keep_one_per_day |-> 0,
     keep_one_per_week |-> 0, keep_one_per_month |-> 0]

\* retention configurations tried in RetentionSpec
Configs ==
    [keep_all : {0, 1}, keep_one_per_day : {0, 2},
     keep_one_per_week : {0, 1}, keep_one_per_month : {0, 1}]
        \cup {DefaultSmartRemove}

\* retention configurations of the runs of Spec
RunConfigs == {DefaultSmartRemove, NoSmartRemove}

(* ------------------------------ state --------------------------------- *)
VARIABLES
    is_dst_remote,  \* the destination is user@host:path (fixed per behaviour)
    cfg,            \* self.smart_remove (fixed per behaviour)
    clock,          \* the UTC wall clock, in ticks
    destExists,     \* the destination directory exists
    dirs,           \* timestamps of the snapshot directories on the destination
    latest,         \* target of the "latest" symlink, NoLink when there is none
    lockIno,        \* inode the lock path names, 0 when the path does not exist
    fd,             \* fd[r]: inode process r has open as self._fl, 0 when none
    held,           \* held[r]: inode process r holds the lockf lock on, 0 when none
    pc,             \* pc[r]: where process r is
    exit,           \* exit[r]: exit status decided for process r, -1 when none yet
    run,            \* locals and history of the run in progress (Spec)
    dest0           \* the destination as the run in progress found it

vars == <<is_dst_remote, cfg, clock, destExists, dirs, latest,
          lockIno, fd, held, pc, exit, run, dest0>>

envVars  == <<is_dst_remote, cfg>>
destVars == <<destExists, dirs, latest>>
lockVars == <<lockIno, fd, held>>

Runs == 1 .. NumRuns

\* no "latest" entry in the destination
NoLink == -1

NoStat == [files |-> 0, ffree |-> 0, bavail |-> 0, bsize |-> 0, blocks |-> 0]

\* what statvfs / stat -f may report: inode accounting absent or present,
\* free inodes and free space just below and at the thresholds
Stats ==
    { [files |-> f[1], ffree |-> f[2], bavail |-> b, bsize |-> 4096,
       blocks |-> 2 * ((min_space * ONEM) \div 4096)] :
        f \in { <<0, 0>>, <<2 * min_inodes, min_inodes - 1>>,
                <<2 * min_inodes, min_inodes>> },
        b \in { (min_space * ONEM) \div 4096 - 1, (min_space * ONEM) \div 4096 } }

\* exit statuses rsync may return: success, one of RSYNC_EXIT_CODE, one that
\* is not a key of RSYNC_EXIT_CODE; or subprocess.run raises
RsyncOutcomes == {"ok", "documented", "undocumented", "raised"}

\* what _read_config may find: a usable file; --config naming a file that
\* cannot be opened; none of CONF_FILES existing; a file that is empty (yaml
\* loads None); broken YAML; no source or destination key; a destination
\* that is not a string
ConfigFiles ==
    {"ok", "unreadable", "not_found", "empty", "malformed", "incomplete",
     "destination_not_string"}

\* the status _read_config calls sys.exit with, -1 when it returns
ConfigExit(file) ==
    CASE file = "ok" -> -1
      [] file = "unreadable" -> 1
      [] file \in {"not_found", "empty"} -> 2
      [] file \in {"malformed", "incomplete", "destination_not_string"} -> 1

NewRun ==
    [config |-> "ok",
     snapshots |-> {}, backup_dst |-> NoLink, stat |-> NoStat,
     check_inodes |-> TRUE, cloned |-> "none", rsync |-> "none",
     reseated |-> FALSE, retention |-> FALSE, del_list |-> {},
     attempted |-> {}, deleted |-> {}, made |-> {},
     mkdest |-> FALSE, reported |-> FALSE, inodes_reported |-> FALSE,
     abort |-> "none"]

Dest == [exists |-> destExists, dirs |-> dirs, latest |-> latest]

(* --------------------------- the lock file ---------------------------- *)
\* an inode number not in use: neither linked at the lock path nor open
FreshIno == SetMin({i \in 1 .. (NumRuns + 1) :
                        i # lockIno /\ \A q \in Runs : fd[q] # i})

\* another process holds the lockf lock on the inode r has open
LockedByOther(r) == \E q \in Runs : q # r /\ held[q] # 0 /\ held[q] = fd[r]

\* run() is entered by a new process whose configuration is one of `files`:
\* _read_config returns, or ends the process before the lock is asked for
Enter(r, files) ==
    /\ pc[r] \in {"idle", "done"}
    /\ \E file \in files :
        /\ run' = [NewRun EXCEPT
                     !.config = file,
                     !.abort = IF ConfigExit(file) = -1 THEN "none" ELSE "config"]
        /\ exit' = [exit EXCEPT ![r] = ConfigExit(file)]
        /\ pc' = [pc EXCEPT ![r] = IF ConfigExit(file) = -1 THEN "flock_open"
                                                            ELSE "done"]
    /\ dest0' = Dest
    /\ UNCHANGED <<envVars, clock, destVars, lockVars>>

\* a run with whatever configuration file the operator left
Start(r) == Enter(r, ConfigFiles)

\* a run that gets past _read_config (the lock is not asked for otherwise)
StartConfigured(r) == Enter(r, {"ok"})

\* os.open(self._lock_fname, O_CREAT | O_TRUNC | O_WRONLY)
FlockOpen(r) ==
    /\ pc[r] = "flock_open"
    /\ LET ino == IF lockIno = 0 THEN FreshIno ELSE lockIno
       IN  /\ lockIno' = ino
           /\ fd' = [fd EXCEPT ![r] = ino]
    /\ pc' = [pc EXCEPT ![r] = "flock_lockf"]
    /\ UNCHANGED <<envVars, clock, destVars, held, exit, run, dest0>>

\* fcntl.lockf(self._fl, LOCK_EX | LOCK_NB) succeeds
FlockAcquire(r) ==
    /\ pc[r] = "flock_lockf"
    /\ ~LockedByOther(r)
    /\ held' = [held EXCEPT ![r] = fd[r]]
    /\ pc' = [pc EXCEPT ![r] = "locked"]
    /\ UNCHANGED <<envVars, clock, destVars, lockIno, fd, exit, run, dest0>>

\* fcntl.lockf raises IOError: sys.exit(2) outside the try, the process ends
\* and the kernel closes its descriptor
FlockBusy(r) ==
    /\ pc[r] = "flock_lockf"
    /\ LockedByOther(r)
    /\ fd' = [fd EXCEPT ![r] = 0]
    /\ pc' = [pc EXCEPT ![r] = "done"]
    /\ exit' = [exit EXCEPT ![r] = 2]
    /\ UNCHANGED <<envVars, clock, destVars, lockIno, held, run, dest0>>

\* fcntl.lockf(self._fl, LOCK_UN)
FlockUnlock(r) ==
    /\ pc[r] = "flock_unlock"
    /\ held' = [held EXCEPT ![r] = 0]
    /\ pc' = [pc EXCEPT ![r] = "flock_close"]
    /\ UNCHANGED <<envVars, clock, destVars, lockIno, fd, exit, run, dest0>>

\* os.close(self._fl)
FlockClose(r) ==
    /\ pc[r] = "flock_close"
    /\ fd' = [fd EXCEPT ![r] = 0]
    /\ pc' = [pc EXCEPT ![r] = "flock_remove"]
    /\ UNCHANGED <<envVars, clock, destVars, lockIno, held, exit, run, dest0>>

\* os.remove(self._lock_fname): unlinks whatever inode the path names now
FlockRemove(r) ==
    /\ pc[r] = "flock_remove"
    /\ lockIno # 0
    /\ lockIno' = 0
    /\ pc' = [pc EXCEPT ![r] = "done"]
    /\ UNCHANGED <<envVars, clock, destVars, fd, held, exit, run, dest0>>

\* os.remove raises FileNotFoundError in the finally clause: the path was
\* removed by another process; the exception replaces the pending exit
FlockRemoveMissing(r) ==
    /\ pc[r] = "flock_remove"
    /\ lockIno = 0
    /\ pc' = [pc EXCEPT ![r] = "done"]
    /\ exit' = [exit EXCEPT ![r] = 1]
    /\ UNCHANGED <<envVars, clock, destVars, lockVars, run, dest0>>

\* the guarded region of run() as LockSpec sees it: the try block ends, by a
\* normal return (0) or by an abort (2)
GuardedRegion(r) ==
    /\ pc[r] = "locked"
    /\ \E st \in {0, 2} : exit' = [exit EXCEPT ![r] = st]
    /\ pc' = [pc EXCEPT ![r] = "flock_unlock"]
    /\ UNCHANGED <<envVars, clock, destVars, lockVars, run, dest0>>

(* ------------------------- the guarded region ------------------------- *)
\* mutant: the process ends where the exit is raised, no finally clause
Leave_NoFinally(r, status) ==
    /\ pc' = [pc EXCEPT ![r] = "done"]
    /\ exit' = [exit EXCEPT ![r] = status]

\* sys.exit / exit / an uncaught exception inside the try block: the finally
\* clause runs _flock_release, then the process ends with `status`
Leave(r, status) ==
    /\ pc' = [pc EXCEPT ![r] = "flock_unlock"]
    /\ exit' = [exit EXCEPT ![r] = status]

\* mutant: makedirs of the snapshot path instead of the destination
_create_dest_directory_Eager(r) ==
    /\ pc[r] = "locked"
    /\ destExists' = TRUE
    /\ dirs' = dirs \cup {clock}
    /\ run' = [run EXCEPT !.mkdest = ~destExists]
    /\ pc' = [pc EXCEPT ![r] = "check_freespace"]
    /\ UNCHANGED <<envVars, clock, latest, lockVars, exit, dest0>>

\* _create_dest_directory: os.makedirs / mkdir -p when the path is missing
_create_dest_directory(r) ==
    /\ pc[r] = "locked"
    /\ destExists' = TRUE
    /\ run' = [run EXCEPT !.mkdest = ~destExists]
    /\ pc' = [pc EXCEPT ![r] = "check_freespace"]
    /\ UNCHANGED <<envVars, clock, dirs, latest, lockVars, exit, dest0>>

\* mutant: files == 0 is taken for "no free inodes"
InodesShort_NoSkip(stat) == stat.ffree < min_inodes

\* the inode test of _check_freespace: skipped when files == 0
InodesShort(stat) ==
    IF stat.files = 0 THEN FALSE ELSE stat.ffree < min_inodes

\* space_free = bavail * bsize / ONEM < min_space (true division)
SpaceShort(stat) == stat.bavail * stat.bsize < min_space * ONEM

\* self._check_inodes after _check_freespace looked at stat
CheckInodes(stat) == stat.files # 0

\* _check_freespace: abort on an inode or a space shortfall
_check_freespace(r) ==
    /\ pc[r] = "check_freespace"
    /\ \E stat \in Stats :
        /\ IF InodesShort(stat)
           THEN /\ run' = [run EXCEPT !.stat = stat, !.abort = "capacity"]
                /\ Leave(r, 2)
           ELSE IF SpaceShort(stat)
           THEN /\ run' = [run EXCEPT !.stat = stat, !.abort = "capacity",
                                      !.check_inodes = CheckInodes(stat)]
                /\ Leave(r, 2)
           ELSE /\ run' = [run EXCEPT !.stat = stat,
                                      !.check_inodes = CheckInodes(stat)]
                /\ pc' = [pc EXCEPT ![r] = "find_snapshots"]
                /\ UNCHANGED exit
    /\ UNCHANGED <<envVars, clock, destVars, lockVars, dest0>>

\* _get_file_stat(latest): both the local and the remote variant report
\* exists = islink; only `broken` differs (remote: also when there is no link)
_get_file_stat(remote, link, present) ==
    IF remote
    THEN [exists |-> link # NoLink, islink |-> link # NoLink,
          broken |-> ~(link # NoLink /\ link \in present), target |-> link]
    ELSE [exists |-> link # NoLink, islink |-> link # NoLink,
          broken |-> link # NoLink /\ link \notin present, target |-> link]

\* mutant: the list is taken after the new snapshot got its name, and holds it
FindSnapshots_IncludesNew(r) ==
    /\ pc[r] = "find_snapshots"
    /\ \E now \in Times :
        /\ now >= clock
        /\ clock' = now
        /\ run' = [run EXCEPT !.snapshots = dirs \cup {now}, !.backup_dst = now]
    /\ pc' = [pc EXCEPT ![r] = "branch"]
    /\ UNCHANGED <<envVars, destVars, lockVars, exit, dest0>>

\* _take_snapshot up to the branch: _find_snapshots, utcnow, backup_dst
FindSnapshots(r) ==
    /\ pc[r] = "find_snapshots"
    /\ \E now \in Times :
        /\ now >= clock
        /\ clock' = now
        /\ run' = [run EXCEPT !.snapshots = dirs, !.backup_dst = now]
    /\ pc' = [pc EXCEPT ![r] = "branch"]
    /\ UNCHANGED <<envVars, destVars, lockVars, exit, dest0>>

\* cp -arl src dst can succeed only when src exists and is not dst itself
CloneCanSucceed(src, dst, present) == src \in present /\ src # dst

\* outcomes of cp -arl last_snapshot backup_dst: <<returncode = 0, dirs after>>;
\* a failing copy of an existing tree may leave a partial backup_dst behind
CloneOutcomes(src, dst, present) ==
    (IF CloneCanSucceed(src, dst, present)
     THEN {<<TRUE, present \cup {dst}>>, <<FALSE, present \cup {dst}>>}
     ELSE {})
        \cup {<<FALSE, present>>}

\* mutant: the return code of cp is not looked at
CloneFatal_Ignored(ok) == FALSE

\* if res.returncode != 0: abort
CloneFatal(ok) == ~ok

\* branch 1: prior snapshots and latest_stat['exists']: clone the target
CloneLast(r) ==
    /\ pc[r] = "branch"
    /\ LET latest_stat == _get_file_stat(is_dst_remote, latest, dirs)
       IN  /\ run.snapshots # {} /\ latest_stat.exists
           /\ \E res \in CloneOutcomes(latest_stat.target, run.backup_dst, dirs) :
                /\ dirs' = res[2]
                /\ IF CloneFatal(res[1])
                   THEN /\ run' = [run EXCEPT
                                     !.cloned = IF res[1] THEN "ok" ELSE "failed",
                                     !.made = res[2] \ dirs,
                                     !.abort = "clone"]
                        /\ Leave(r, 2)
                   ELSE /\ run' = [run EXCEPT
                                     !.cloned = IF res[1] THEN "ok" ELSE "failed",
                                     !.made = res[2] \ dirs]
                        /\ pc' = [pc EXCEPT ![r] = "mkdir"]
                        /\ UNCHANGED exit
    /\ UNCHANGED <<envVars, clock, destExists, latest, lockVars, dest0>>

\* branch 2: prior snapshots and not latest_stat['exists']: make an empty
\* backup_dst, point latest at it and exit(2); a local os.mkdir of an
\* existing backup_dst raises FileExistsError
RecreateLatest(r) ==
    /\ pc[r] = "branch"
    /\ LET latest_stat == _get_file_stat(is_dst_remote, latest, dirs)
       IN  /\ run.snapshots # {} /\ ~latest_stat.exists
           /\ IF ~is_dst_remote /\ run.backup_dst \in dirs
              THEN /\ latest' = IF latest_stat.islink THEN NoLink ELSE latest
                   /\ run' = [run EXCEPT !.abort = "exception"]
                   /\ Leave(r, 1)
                   /\ UNCHANGED dirs
              ELSE /\ dirs' = dirs \cup {run.backup_dst}
                   /\ latest' = run.backup_dst
                   /\ run' = [run EXCEPT !.abort = "pointer",
                                         !.made = {run.backup_dst} \ dirs]
                   /\ Leave(r, 2)
    /\ UNCHANGED <<envVars, clock, destExists, lockVars, dest0>>

\* branch 3: no prior snapshot: remove a stale latest
RemoveStaleLatest(r) ==
    /\ pc[r] = "branch"
    /\ run.snapshots = {}
    /\ latest' = NoLink
    /\ pc' = [pc EXCEPT ![r] = "mkdir"]
    /\ UNCHANGED <<envVars, clock, destExists, dirs, lockVars, exit, run, dest0>>

\* mkdir -p backup_dst / os.mkdir(backup_dst) unless it exists
MakeBackupDst(r) ==
    /\ pc[r] = "mkdir"
    /\ dirs' = dirs \cup {run.backup_dst}
    /\ run' = [run EXCEPT !.made = run.made \cup ({run.backup_dst} \ dirs)]
    /\ pc' = [pc EXCEPT ![r] = "run_rsync"]
    /\ UNCHANGED <<envVars, clock, destExists, latest, lockVars, exit, dest0>>

\* mutant: the KeyError of an undocumented status escapes _run_rsync
RsyncReturns_KeyError(outcome) == outcome \in {"ok", "documented", "raised"}

\* what _run_rsync does with an outcome of the rsync call: it logs, also when
\* RSYNC_EXIT_CODE has no such key (KeyError) or the call raises: the broad
\* except catches both; TRUE when _run_rsync returns normally
RsyncReturns(outcome) == outcome \in RsyncOutcomes

\* mutant: the sync step is left out, the run goes straight on
_run_rsync_Skipped(r) ==
    /\ pc[r] = "run_rsync"
    /\ pc' = [pc EXCEPT ![r] = "reseat"]
    /\ UNCHANGED <<envVars, clock, destVars, lockVars, exit, run, dest0>>

\* _run_rsync(args)
_run_rsync(r) ==
    /\ pc[r] = "run_rsync"
    /\ \E outcome \in RsyncOutcomes :
        /\ run' = [run EXCEPT !.rsync = outcome,
                              !.abort = IF RsyncReturns(outcome)
                                        THEN run.abort ELSE "exception"]
        /\ IF RsyncReturns(outcome)
           THEN pc' = [pc EXCEPT ![r] = "reseat"] /\ UNCHANGED exit
           ELSE Leave(r, 1)
    /\ UNCHANGED <<envVars, clock, destVars, lockVars, dest0>>

\* mutant: the pointer is left as it was
ReseatedLatest_Stale(remote, link, present, backup_dst) == link

\* the pointer after lines 289-294: remote rm + ln -s always; local only when
\* os.path.exists(latest), which follows the link
ReseatedLatest(remote, link, present, backup_dst) ==
    IF remote THEN backup_dst
    ELSE IF link # NoLink /\ link \in present THEN backup_dst
    ELSE link

\* the pointer update of _take_snapshot
ReseatLatest(r) ==
    /\ pc[r] = "reseat"
    /\ latest' = ReseatedLatest(is_dst_remote, latest, dirs, run.backup_dst)
    /\ run' = [run EXCEPT !.reseated = TRUE]
    /\ pc' = [pc EXCEPT ![r] = "smart_remove"]
    /\ UNCHANGED <<envVars, clock, destExists, dirs, lockVars, exit, dest0>>

\* the deletion loop over del_snapshots (in list order) when removing the
\* snapshots of `failing` fails.  Remote: the return code of rm -fr is not
\* looked at and the loop goes on.  Local: shutil.rmtree raises on the first
\* failure, which ends the loop and _smart_remove.  A snapshot whose removal
\* failed is still there (in part at least).
DeleteLoop(remote, del_snapshots, failing) ==
    IF remote \/ del_snapshots \cap failing = {}
    THEN [attempted |-> del_snapshots,
          deleted   |-> del_snapshots \ failing,
          raised    |-> FALSE]
    ELSE LET first == SetMin(del_snapshots \cap failing)
         IN  [attempted |-> {s \in del_snapshots : s <= first},
              deleted   |-> {s \in del_snapshots : s < first},
              raised    |-> TRUE]

\* _smart_remove(snapshots): the list is the one FindSnapshots discovered;
\* an exception of the deletion loop leaves run() through the finally clause
\* and ends the process with status 1
_smart_remove(r) ==
    /\ pc[r] = "smart_remove"
    /\ \E now \in Times :
        /\ now >= clock
        /\ clock' = now
        /\ \E del_snapshots \in {DelSnapshots(run.snapshots, now, cfg)} :
             \E failing \in SUBSET del_snapshots :
               \E loop \in {DeleteLoop(is_dst_remote, del_snapshots, failing)} :
                     /\ dirs' = dirs \ loop.deleted
                     /\ run' = [run EXCEPT
                                  !.retention = TRUE,
                                  !.del_list = del_snapshots,
                                  !.attempted = loop.attempted,
                                  !.deleted = loop.deleted,
                                  !.abort = IF loop.raised THEN "delete"
                                                           ELSE run.abort]
                     /\ IF loop.raised
                        THEN Leave(r, 1)
                        ELSE /\ pc' = [pc EXCEPT ![r] = "report"]
                             /\ UNCHANGED exit
    /\ UNCHANGED <<envVars, destExists, latest, lockVars, dest0>>

\* the two _print_fs_stat calls and "All done"; main then calls sys.exit(0)
Report(r) ==
    /\ pc[r] = "report"
    /\ run' = [run EXCEPT !.reported = TRUE,
                          !.inodes_reported = run.check_inodes]
    /\ Leave(r, 0)
    /\ UNCHANGED <<envVars, clock, destVars, lockVars, dest0>>

(* --------------------------- specifications --------------------------- *)
Idle == [r \in Runs |-> "idle"]
NoFd == [r \in Runs |-> 0]
NoExit == [r \in Runs |-> -1]

\* timestamps of the snapshots a destination may hold when the model starts
InitTimes == T0 .. (T0 + MaxInitSnapshots - 1)

\* Spec: any destination earlier runs or an operator may have left: missing,
\* empty, or holding snapshots with the pointer absent, valid, stale or broken
Init ==
    /\ is_dst_remote \in BOOLEAN
    /\ cfg \in RunConfigs
    /\ clock = T0 + MaxInitSnapshots - 1
    /\ destExists \in BOOLEAN
    /\ dirs \in SUBSET InitTimes
    /\ latest \in InitTimes \cup {NoLink}
    /\ ~destExists => (dirs = {} /\ latest = NoLink)
    /\ lockIno = 0
    /\ fd = NoFd
    /\ held = NoFd
    /\ pc = Idle
    /\ exit = NoExit
    /\ run = NewRun
    /\ dest0 = Dest

\* one process at a time
Next ==
    \/ Start(1)
    \/ FlockOpen(1)
    \/ FlockAcquire(1)
    \/ _create_dest_directory(1)
    \/ _check_freespace(1)
    \/ FindSnapshots(1)
    \/ CloneLast(1)
    \/ RecreateLatest(1)
    \/ RemoveStaleLatest(1)
    \/ MakeBackupDst(1)
    \/ _run_rsync(1)
    \/ ReseatLatest(1)
    \/ _smart_remove(1)
    \/ Report(1)
    \/ FlockUnlock(1)
    \/ FlockClose(1)
    \/ FlockRemove(1)

Spec == Init /\ [][Next]_vars

\* LockSpec: NumRuns processes against one destination
LockInit ==
    /\ is_dst_remote = FALSE
    /\ cfg = DefaultSmartRemove
    /\ clock = T0
    /\ destExists = TRUE
    /\ dirs = {}
    /\ latest = NoLink
    /\ lockIno = 0
    /\ fd = NoFd
    /\ held = NoFd
    /\ pc = Idle
    /\ exit = NoExit
    /\ run = NewRun
    /\ dest0 = Dest

LockNext ==
    \E r \in Runs :
        \/ StartConfigured(r)
        \/ FlockOpen(r)
        \/ FlockAcquire(r)
        \/ FlockBusy(r)
        \/ GuardedRegion(r)
        \/ FlockUnlock(r)
        \/ FlockClose(r)
        \/ FlockRemove(r)
        \/ FlockRemoveMissing(r)

LockSpec == LockInit /\ [][LockNext]_vars

\* RetentionSpec: _smart_remove on any list, clock reading and configuration
RetentionInit ==
    /\ is_dst_remote \in BOOLEAN
    /\ cfg \in Configs
    /\ clock \in Times
    /\ destExists = TRUE
    /\ dirs \in {S \in SUBSET Times : Cardinality(S) <= MaxSnapshots}
    /\ latest = NoLink
    /\ lockIno = 1
    /\ fd = [NoFd EXCEPT ![1] = 1]
    /\ held = [NoFd EXCEPT ![1] = 1]
    /\ pc = [Idle EXCEPT ![1] = "smart_remove"]
    /\ exit = NoExit
    /\ run = [NewRun EXCEPT !.snapshots = dirs]
    /\ dest0 = Dest

RetentionNext == _smart_remove(1)

RetentionSpec == RetentionInit /\ [][RetentionNext]_vars

(* ------------------------------ claims -------------------------------- *)
\* C1: for any interleaving of runs against the same destination, at most
\* one run at a time holds the lease.  The claim counts a run as a holder
\* from the return of _flock_exclusive to the end of _flock_release; the
\* formula counts it only while it is inside the guarded region (before
\* _flock_release starts), which the claim implies.
C1_AtMostOneLeaseHolder ==
    Cardinality({r \in Runs : pc[r] = "locked"}) <= 1

\* C2: for a list of at least two snapshots, any clock reading and any
\* retention configuration, the chronologically latest snapshot of the list
\* handed to _smart_remove is not deleted.
C2_NewestNeverDeleted ==
    (run.retention /\ Cardinality(run.snapshots) >= 2)
        => /\ SetMax(run.snapshots) \notin run.del_list
           /\ SetMax(run.snapshots) \notin run.deleted
           /\ SetMax(run.snapshots) \in dirs

\* _smart_remove deleted something from a list whose newest snapshot lies in
\* a year after the clock's, with every optional rule switched off
C2_Witness ==
    /\ run.retention
    /\ Cardinality(run.snapshots) >= 2
    /\ run.deleted # {}
    /\ cfg = NoSmartRemove
    /\ YearOf(SetMax(run.snapshots)) > YearOf(clock)

\* the run in progress has ended: its process is gone
Done == pc[1] = "done"

\* C3: given an empty destination (no snapshot directory, no pointer), a run
\* that creates the first snapshot performs no clone, creates exactly one
\* snapshot directory and ends with the pointer resolving to it.
C3_FirstSnapshotSetsLatest ==
    (Done /\ exit[1] = 0 /\ dest0.dirs = {} /\ dest0.latest = NoLink)
        => /\ run.cloned = "none"
           /\ run.made = {run.backup_dst}
           /\ dirs = {run.backup_dst}
           /\ latest = run.backup_dst

\* C4: if the snapshot set a run discovered is non-empty and the run reaches
\* the end of run() without an abort, the pointer resolves to the snapshot
\* directory of that run.
C4_LatestIsNewSnapshot ==
    (run.reported /\ run.snapshots # {})
        => /\ latest = run.backup_dst
           /\ run.backup_dst \in dirs

\* a run over a non-empty snapshot set ended normally after cloning, and its
\* retention deleted a snapshot
C4_Witness ==
    /\ Done /\ exit[1] = 0
    /\ run.snapshots # {}
    /\ run.cloned = "ok"
    /\ run.deleted # {}

\* the pointer, as the run found it, is absent or a broken link
PointerAnomaly == dest0.latest = NoLink \/ dest0.latest \notin dest0.dirs

\* C5: when prior snapshots exist and the pointer is absent or broken, the
\* run creates a fresh empty snapshot directory, leaves the pointer resolving
\* to it and aborts with status 2, without a clone attempt, without
\* synchronization and without retention.  (Stated for a run whose snapshot
\* name is not taken yet.)
C5_AnomalyRecreatesLatest ==
    (Done /\ run.snapshots # {} /\ PointerAnomaly
          /\ run.backup_dst # NoLink /\ run.backup_dst \notin run.snapshots)
        => /\ run.made = {run.backup_dst}
           /\ run.backup_dst \in dirs
           /\ latest = run.backup_dst
           /\ exit[1] = 2
           /\ run.cloned = "none"
           /\ run.rsync = "none"
           /\ ~run.retention

\* the environment did not fail the run: capacity sufficed, cp failed only
\* where it cannot succeed, rsync returned 0 if it ran, no deletion failed
NoFaultRun ==
    /\ run.abort # "capacity"
    /\ run.attempted = run.deleted
    /\ run.cloned = "failed"
         => ~CloneCanSucceed(dest0.latest, run.backup_dst, dest0.dirs)
    /\ run.rsync \in {"none", "ok"}

\* C6: an absent, broken or stale pointer is recoverable: no destination
\* state makes every later run abort.  What a run does to a destination
\* depends on the destination, the configuration and a snapshot name not
\* taken yet; so a run that the environment did not fail and that did not
\* end normally must have changed the destination, or every later run
\* repeats it.
C6_AbortedRunChangesDestination ==
    (Done /\ exit[1] # 0 /\ NoFaultRun
          /\ run.backup_dst # NoLink /\ run.backup_dst \notin run.snapshots)
        => (dirs # dest0.dirs \/ latest # dest0.latest)

\* C7 as claimed: on a capacity abort the run has created no directory,
\* neither the destination directory nor a snapshot directory, and the
\* pointer is unchanged.
C7_CapacityAbortCreatesNothing ==
    run.abort = "capacity"
        => /\ ~run.mkdest
           /\ run.made = {}
           /\ dirs = dest0.dirs
           /\ latest = dest0.latest

\* C7 amended: on a capacity abort the run has created no snapshot directory
\* and the pointer and the snapshot set are unchanged; the destination
\* directory itself is created before the checks when it was missing.
C7_CapacityAbortCreatesNoSnapshot ==
    run.abort = "capacity"
        => /\ run.made = {}
           /\ dirs = dest0.dirs
           /\ latest = dest0.latest
           /\ destExists

\* a run ended on a capacity shortfall after creating the destination
C7_Witness ==
    Done /\ run.abort = "capacity" /\ exit[1] = 2 /\ run.mkdest

\* C8: the capacity guard aborts (status 2) exactly when total inodes is
\* nonzero and free inodes < min_inodes, or free space in megabytes is below
\* min_space; with total inodes zero only the space check decides and no
\* inode figure is reported later in the run.
C8_CapacityGuard ==
    run.stat # NoStat
        => /\ (run.abort = "capacity")
                <=> \/ (run.stat.files # 0 /\ run.stat.ffree < min_inodes)
                    \/ run.stat.bavail * run.stat.bsize < min_space * ONEM
           /\ run.abort = "capacity" => exit[1] = 2
           /\ run.stat.files = 0 => ~run.inodes_reported
           /\ (run.stat.files = 0 /\ run.abort # "capacity")
                => ~run.check_inodes

\* a run on a filesystem without inode accounting (0 total, 0 free) passed
\* the guard and reported at the end
C8_Witness ==
    /\ Done /\ run.reported
    /\ run.stat.files = 0 /\ run.stat.ffree < min_inodes

\* C9: a synchronization failure is never fatal: whatever rsync returns, and
\* when calling it raises, the run goes on to the pointer update, then to
\* retention, and releases the lease; nothing but a failing deletion of
\* retention keeps it from ending normally.
C9_SyncFailureNotFatal ==
    /\ run.rsync # "none" => run.abort \in {"none", "delete"}
    /\ run.retention => run.reseated
    /\ (Done /\ run.rsync # "none")
         => /\ run.reseated /\ run.retention
            /\ run.abort = "none" => (run.reported /\ exit[1] = 0)
            /\ held[1] = 0 /\ fd[1] = 0 /\ lockIno = 0

\* a run whose rsync returned a status RSYNC_EXIT_CODE does not list ended
C9_Witness ==
    Done /\ run.rsync = "undocumented" /\ run.retention

\* C10: when the hard-link clone fails the run aborts with status 2 before
\* synchronization: rsync is not invoked, the pointer is unchanged and no
\* snapshot is deleted.
C10_CloneFailureAborts ==
    run.cloned = "failed"
        => /\ pc[1] \in {"flock_unlock", "flock_close", "flock_remove", "done"}
           /\ exit[1] = 2
           /\ run.rsync = "none"
           /\ ~run.reseated
           /\ latest = dest0.latest
           /\ ~run.retention /\ run.deleted = {}
           /\ dest0.dirs \subseteq dirs

\* cp failed on a pointer target that exists, and the run has ended
C10_Witness ==
    /\ Done /\ run.cloned = "failed"
    /\ dest0.latest \in dest0.dirs

\* a deletion of the run's retention failed
DeletionFailed == run.attempted # run.deleted

\* C11: a failure to delete one snapshot of the deletion list does not stop
\* processing: every snapshot of the list is still attempted and the run
\* still reports completion (and ends with status 0).
C11_DeletionFailureNotFatal ==
    (Done /\ run.retention /\ DeletionFailed)
        => /\ run.attempted = run.del_list
           /\ run.reported
           /\ exit[1] = 0

\* C12: a run that acquired the lease releases it on every exit path (normal
\* completion, capacity abort, clone-failure abort, pointer-anomaly abort,
\* uncaught exception): once it has terminated, no other run being active,
\* the lock is not held, the descriptor is closed and the lock file is gone;
\* and it holds the lock on the lock file all through the guarded region.
C12_LeaseReleasedOnEveryExit ==
    /\ (Done /\ run.config = "ok")
         => (held[1] = 0 /\ fd[1] = 0 /\ lockIno = 0)
    /\ pc[1] \in {"locked", "check_freespace", "find_snapshots", "branch",
                  "mkdir", "run_rsync", "reseat", "smart_remove", "report",
                  "flock_unlock"}
         => (held[1] # 0 /\ held[1] = lockIno)

\* a run has terminated on an uncaught exception (a deletion that failed)
\* after it held the lease
C12_Witness ==
    Done /\ run.config = "ok" /\ run.abort = "delete" /\ exit[1] = 1

\* C13: lock acquisition is non-blocking and leaves the holder intact: while
\* a first run holds the lease (is inside the guarded region), no acquisition
\* of another run succeeds; the run that finds the lock taken ends at once
\* with status 2 and changes neither the snapshots, the pointer, the lock
\* file nor the lock held on it.
C13_ContentionFailsFast ==
    [][\A r \in Runs :
          /\ (pc[r] = "flock_lockf" /\ pc'[r] = "locked")
                => \A q \in Runs \ {r} : pc[q] # "locked"
          /\ (pc[r] = "flock_lockf" /\ pc'[r] = "done")
                => /\ exit'[r] = 2
                   /\ UNCHANGED <<destVars, lockIno, held>>]_vars

\* the configuration file was not usable
ConfigError == run.config # "ok"

\* the run ended on one of the operational aborts
OperationalAbort == run.abort \in {"capacity", "clone", "pointer"}

\* C14: exit statuses follow the taxonomy on every termination path of a run
\* (contention apart, which takes more than one process): 0 only on normal
\* completion; 1 for every configuration error (unreadable, missing,
\* malformed or incomplete configuration); 2 for exactly the operational
\* aborts (capacity shortfall, clone failure, pointer-anomaly recovery).
C14_ExitStatusTaxonomy ==
    Done => /\ exit[1] = 0 => (run.reported /\ run.abort = "none")
            /\ ConfigError => exit[1] = 1
            /\ exit[1] = 2 <=> OperationalAbort

\* _smart_remove got past its early return: the rules were applied
RulesApplied == run.retention /\ Cardinality(run.snapshots) >= 2

\* the latest snapshot of each of n week buckets [start - 7w days,
\* start - 7w days + 8 days), w = 0 .. n - 1
WeekBuckets(snapshots, start, n) ==
    UNION { _keep_last(snapshots, start - 7 * w * ONEDAY,
                       start - 7 * w * ONEDAY + 8 * ONEDAY)
            : w \in 0 .. (n - 1) }

\* the week-starts the claim admits for a clock reading: the code's weeks
\* start on Sunday; the Sunday at or before today, or (read with the code's
\* own arithmetic on a Sunday) the Sunday before today
ClaimedWeekStarts(now) ==
    { Today(now) - ((Weekday(Today(now)) + 1) % 7) * ONEDAY,
      Today(now) - (Weekday(Today(now)) + 1) * ONEDAY }

\* C15: the first week bucket starts at the most recent week-start at or
\* before today (UTC midnight of the current day), each bucket is
\* [start, start + 8 days), successive buckets start 7 days earlier, and the
\* week rule selects the latest snapshot of each of the keep_one_per_week
\* buckets, whatever keep_one_per_day is; what it selects is not deleted.
C15_WeekWindowsIgnoreDayRule ==
    (RulesApplied /\ cfg.keep_one_per_week > 0)
        => \E start \in ClaimedWeekStarts(clock) :
             /\ KeepWeekRule(run.snapshots, clock, cfg)
                  = WeekBuckets(run.snapshots, start, cfg.keep_one_per_week)
             /\ WeekBuckets(run.snapshots, start, cfg.keep_one_per_week)
                  \cap run.del_list = {}

\* months counted from year 0: the calendar month i months before now's
MonthIndex(now, i) == YearOf(now) * 12 + (MonthOf(now) - 1) - i

\* the first day of the calendar month with index k
MonthFirstDay(k) == DateTime(k \div 12, (k % 12) + 1, 1)

\* C16: the keep_one_per_month windows are the current calendar month and
\* the months immediately before it, window i being [first day of the month,
\* first day of the next month), so that consecutive windows tile time, also
\* across December/January; the latest snapshot of each window is kept.
C16_CalendarMonthWindows ==
    (RulesApplied /\ cfg.keep_one_per_month > 0)
        => \A i \in 0 .. (cfg.keep_one_per_month - 1) :
             /\ MonthStart(clock, i) = MonthFirstDay(MonthIndex(clock, i))
             /\ MonthEnd(clock, i) = MonthFirstDay(MonthIndex(clock, i) + 1)
             /\ _keep_last(run.snapshots, MonthFirstDay(MonthIndex(clock, i)),
                           MonthFirstDay(MonthIndex(clock, i) + 1))
                  \cap run.del_list = {}

\* twelve month windows were walked back from a January across the year
\* boundary, over a list with snapshots of December and of January
C16_Witness ==
    /\ RulesApplied
    /\ cfg.keep_one_per_month = 12
    /\ MonthOf(clock) = 1
    /\ \E s1, s2 \in run.snapshots : MonthOf(s1) = 12 /\ MonthOf(s2) = 1

\* the snapshots of the list dated in calendar year y
SnapshotsOfYear(snapshots, y) == {s \in snapshots : YearOf(s) = y}

\* C17: for every calendar year from the earliest snapshot's year through
\* the current year that holds a snapshot, the latest snapshot of that year
\* is kept, for every configuration: it is not on the deletion list and is
\* still there after retention.
C17_LatestOfYearKept ==
    RulesApplied
        => \A y \in YearOf(SetMin(run.snapshots)) .. YearOf(clock) :
             SnapshotsOfYear(run.snapshots, y) # {}
                => /\ SetMax(SnapshotsOfYear(run.snapshots, y)) \notin run.del_list
                   /\ SetMax(SnapshotsOfYear(run.snapshots, y)) \in dirs

\* with every optional rule off, retention deleted a snapshot of a past year
\* whose latest snapshot is not the newest of the list
C17_Witness ==
    /\ RulesApplied
    /\ cfg = NoSmartRemove
    /\ run.deleted # {}
    /\ \E y \in YearOf(SetMin(run.snapshots)) .. (YearOf(clock) - 1) :
         /\ SnapshotsOfYear(run.snapshots, y) \cap run.deleted # {}
         /\ SetMax(SnapshotsOfYear(run.snapshots, y)) # SetMax(run.snapshots)

\* C18: when keep_all > 0, every snapshot t with
\* now - keep_all days <= t <= now, both ends included, is kept, whatever the
\* other thresholds are.
C18_KeepAllInclusive ==
    (RulesApplied /\ cfg.keep_all > 0)
        => \A t \in run.snapshots :
             (clock - cfg.keep_all * ONEDAY <= t /\ t <= clock)
                => (t \notin run.del_list /\ t \in dirs)

\* keep_all alone kept a snapshot dated exactly now - keep_all days next to
\* one dated now, while an older snapshot was deleted
C18_Witness ==
    /\ RulesApplied
    /\ cfg.keep_all > 0 /\ cfg.keep_one_per_day = 0
    /\ cfg.keep_one_per_week = 0 /\ cfg.keep_one_per_month = 0
    /\ (clock - cfg.keep_all * ONEDAY) \in run.snapshots
    /\ clock \in run.snapshots
    /\ run.deleted # {}

\* C19: for a fixed clock reading and configuration, retention applied again
\* to the snapshots that survived its first application deletes nothing
\* more: keep(keep(S)) = keep(S).
C19_RetentionIdempotent ==
    run.retention
        => DelSnapshots(run.snapshots \ run.del_list, clock, cfg) = {}

\* retention put a snapshot on the deletion list and left at least two, so
\* that the second application gets past the early return
C19_Witness ==
    /\ run.retention
    /\ run.del_list # {}
    /\ Cardinality(run.snapshots \ run.del_list) >= 2

\* C20: retention is a no-op for a list of zero or one snapshot: nothing is
\* put on the deletion list, nothing is removed and no destination entry
\* changes, for every configuration and clock reading.
C20_ShortListNoOp ==
    (run.retention /\ Cardinality(run.snapshots) <= 1)
        => /\ run.del_list = {} /\ run.attempted = {} /\ run.deleted = {}
           /\ Dest = dest0
           /\ pc[1] # "smart_remove" /\ exit[1] = -1

\* retention ran on a single snapshot that no optional rule would keep: all
\* of them are off, and the snapshot is dated after the clock's year
C20_Witness ==
    /\ run.retention
    /\ Cardinality(run.snapshots) = 1
    /\ cfg = NoSmartRemove
    /\ \A s \in run.snapshots : YearOf(s) > YearOf(clock)

\* C21: snapshots are deleted only after a creation that reached the end of
\* its sequence: a step of a run that removes a snapshot directory is the
\* retention step, taken after the sync step and after the pointer update of
\* that run (the pointer resolves to the run's snapshot); and a run that
\* aborts on a capacity shortfall, a clone failure or a pointer anomaly
\* deletes no snapshot, every snapshot it found is still there.
C21_DeletionOnlyAfterCreation ==
    /\ [][dirs \ dirs' # {}
            => /\ pc[1] = "smart_remove"
               /\ run.rsync # "none"
               /\ run.reseated
               /\ latest = run.backup_dst /\ run.backup_dst \in dirs
               /\ run.abort = "none"]_vars
    /\ [](run.abort \in {"capacity", "clone", "pointer"}
            => (run.deleted = {} /\ ~run.retention /\ dest0.dirs \subseteq dirs))
    /\ [](run.deleted # {} => (run.rsync # "none" /\ run.reseated))

\* a run whose sync failed with a documented status went on to delete a
\* snapshot and ended normally
C21_Witness ==
    /\ Done /\ exit[1] = 0
    /\ run.rsync = "documented"
    /\ run.deleted # {}

\* the name of the run's snapshot was not taken when the run started
NewName == run.backup_dst # NoLink /\ run.backup_dst \notin dest0.dirs

\* C22: the list handed to retention is the one discovered before the new
\* snapshot was created (the snapshots the run found), so the snapshot the
\* run creates is never on its deletion list; and after a normally completed
\* run whose snapshot name was not taken, the pointer's target is not among
\* the directories the run deleted: the pointer, if there is one, resolves to
\* an existing snapshot.
C22_NewSnapshotNotDeleted ==
    /\ run.retention
         => /\ run.snapshots = dest0.dirs
            /\ NewName => run.backup_dst \notin run.snapshots
            /\ run.backup_dst \notin run.del_list
            /\ run.backup_dst \in dirs
    /\ (Done /\ exit[1] = 0 /\ NewName)
         => /\ latest \notin run.deleted
            /\ latest # NoLink => latest \in dirs

\* a run whose snapshot name was new deleted older snapshots, ended normally
\* and left the pointer on its own snapshot
C22_Witness ==
    /\ Done /\ exit[1] = 0
    /\ NewName
    /\ run.deleted # {}
    /\ latest = run.backup_dst

=============================================================================
